---- MODULE Spec2Model ----
(***************************************************************************)
(* Model of visual.py: the SME matrix-multiplication report renderer.      *)
(*                                                                         *)
(* Numbers.  The program's decimal literals are kept as scaled integers:   *)
(* a measurement or an axis limit v is held as 100*v (hundredths); an      *)
(* annotation anchor val*f, with f one of the two-decimal factors of the   *)
(* source, is held as (100*val)*(100*f), i.e. in units of 1/10000.         *)
(* Python's 0-based and negative indices are kept and resolved by PyIndex. *)
(* Python dictionaries whose iteration order the code relies on are        *)
(* sequences of records in insertion order.                                *)
(***************************************************************************)
EXTENDS Integers, Sequences, FiniteSets, TLC

VARIABLES
    pc,            \* position of main
    colors,        \* main's local: the palette returned by setup_plot_style
    matrix_sizes,  \* main's locals returned by load_data
    time_data,
    speedup_data,
    gflops_data,
    ax1, ax2, ax3, \* the three subplots of the figure
    suptitle,      \* the figure's title
    idx,           \* position of the loop over output_formats (0-based)
    stdout,        \* the lines printed so far
    disk0,         \* the four output paths as main found them
    disk,          \* the four output paths in the working directory now
    error          \* the exception that terminated main, "none" if none

vars == <<pc, colors, matrix_sizes, time_data, speedup_data, gflops_data,
          ax1, ax2, ax3, suptitle, idx, stdout, disk0, disk, error>>

----------------------------------------------------------------------------
(* Python helpers *)

None == 0

Unset == <<>>

\* s[i] of Python is defined for -len(s) <= i < len(s)
InRange(s, i) == i >= 0 - Len(s) /\ i < Len(s)

PyIndex(s, i) == IF i >= 0 THEN s[i + 1] ELSE s[Len(s) + i + 1]

\* np.arange(n)
arange(n) == [k \in 1..n |-> k - 1]

\* f'{val:.1f}' and f'{val:.0f}': v in hundredths rounded to a multiple of
\* unit hundredths (10 for one decimal, 100 for none), ties to even
FormatFixed(v, unit) ==
    LET q == v \div unit
        r == v % unit
    IN  IF 2 * r > unit THEN q + 1
        ELSE IF 2 * r < unit THEN q
        ELSE IF q % 2 = 0 THEN q ELSE q + 1

----------------------------------------------------------------------------
(* setup_plot_style *)

setup_plot_style ==
    [cpu          |-> "#7F7F7F",
     sme_cpu_prep |-> "#045DB7",
     sme_sme_prep |-> "#6A178B",
     sme_4tiles   |-> "#B580C5",
     grid         |-> "#E8E8E8",
     text         |-> "#333333",
     baseline     |-> "#7F7F7F"]

----------------------------------------------------------------------------
(* load_data: the literal tables, in hundredths *)

MatrixSizes == <<"64x64x64", "128x128x128", "256x256x256">>

TimeTable_slow4 ==
    [cpu          |-> <<45300, 298590, 1155440>>,
     sme_cpu_prep |-> <<3940, 5960, 14020>>,
     sme_sme_prep |-> <<510, 1880, 6610>>,
     sme_4tiles   |-> <<530, 1890, 2300>>]

TimeTable_zero ==
    [cpu          |-> <<45300, 298590, 1155440>>,
     sme_cpu_prep |-> <<3940, 5960, 14020>>,
     sme_sme_prep |-> <<510, 1880, 6610>>,
     sme_4tiles   |-> <<0, 840, 2300>>]

TimeTable ==
    [cpu          |-> <<45300, 298590, 1155440>>,
     sme_cpu_prep |-> <<3940, 5960, 14020>>,
     sme_sme_prep |-> <<510, 1880, 6610>>,
     sme_4tiles   |-> <<530, 840, 2300>>]

SpeedupTable_trunc ==
    [cpu          |-> <<100, 100, 100>>,
     sme_cpu_prep |-> <<1149, 5009, 8241>>,
     sme_sme_prep |-> <<8882, 15882, 17480>>,
     sme_4tiles   |-> <<8547, 35546, 50236>>]

SpeedupTable_base ==
    [cpu          |-> <<100, 100, 101>>,
     sme_cpu_prep |-> <<1150, 5010, 8241>>,
     sme_sme_prep |-> <<8882, 15882, 17480>>,
     sme_4tiles   |-> <<8547, 35546, 50237>>]

SpeedupTable ==
    [cpu          |-> <<100, 100, 100>>,
     sme_cpu_prep |-> <<1150, 5010, 8241>>,
     sme_sme_prep |-> <<8882, 15882, 17480>>,
     sme_4tiles   |-> <<8547, 35546, 50237>>]

GflopsTable_short ==
    [cpu          |-> <<116, 140, 290>>,
     sme_cpu_prep |-> <<1331, 7037, 23933>>,
     sme_sme_prep |-> <<10280, 22310, 50763>>,
     sme_4tiles   |-> <<9892, 49932>>]

GflopsTable ==
    [cpu          |-> <<116, 140, 290>>,
     sme_cpu_prep |-> <<1331, 7037, 23933>>,
     sme_sme_prep |-> <<10280, 22310, 50763>>,
     sme_4tiles   |-> <<9892, 49932, 145889>>]

load_data == <<MatrixSizes, TimeTable, SpeedupTable, GflopsTable>>

----------------------------------------------------------------------------
(* The drawing surface: what the chart routines leave on an Axes *)

NewAxes ==
    [lines   |-> <<>>,   \* ax.plot calls, in order
     bars    |-> <<>>,   \* ax.bar calls, in order
     texts   |-> <<>>,   \* ax.text calls, in order
     hlines  |-> <<>>,   \* ax.axhline calls, in order
     ylim    |-> <<>>,
     xlim    |-> <<>>,
     yscale  |-> "linear",
     xticks  |-> <<>>,
     xticklabels |-> <<>>,
     ylabel  |-> "",
     title   |-> "",
     legend  |-> <<>>,
     grid    |-> ""]

\* the outcome of a chart routine: the Axes as it leaves it, or the exception
Drawn(ax)  == [error |-> "none", ax |-> ax]
Raised(e, ax) == [error |-> e, ax |-> ax]

----------------------------------------------------------------------------
(* create_speedup_plot *)

speedup_methods ==
    <<[key |-> "sme_cpu_prep", label |-> "SME (CPU Transpose + Single Tile)", marker |-> "o"],
      [key |-> "sme_sme_prep", label |-> "SME (SME Transpose + Single Tile)", marker |-> "s"],
      [key |-> "sme_4tiles", label |-> "SME (SME Transpose + 4-Tiles Parallel)", marker |-> "D"]>>

\* y_offset = val * 1.10 if i != 1 else val * 1.15
speedup_y_offset_far(i, val) == IF i # 1 THEN val * 120 ELSE val * 115

speedup_y_offset(i, val) == IF i # 1 THEN val * 110 ELSE val * 115

\* ax.axhline(y=1.0, ...)
speedup_baseline == 100

create_speedup_plot(ax, sizes, speedup, col) ==
    LET x == arange(Len(sizes))
        n == Len(speedup_methods)
        best == speedup["sme_4tiles"]
    IN  IF \E k \in 1..n : speedup_methods[k].key \notin DOMAIN speedup
        THEN Raised("KeyError", ax)
        ELSE IF \E k \in 1..n : Len(speedup[speedup_methods[k].key]) # Len(x)
        THEN Raised("ValueError", ax)       \* ax.plot: x and y differ in length
        ELSE IF \E i \in 0..(Len(best) - 1) : ~InRange(x, i)
        THEN Raised("IndexError", ax)       \* x[i]
        ELSE Drawn([ax EXCEPT
            !.lines = [k \in 1..n |->
                         [key    |-> speedup_methods[k].key,
                          label  |-> speedup_methods[k].label,
                          marker |-> speedup_methods[k].marker,
                          color  |-> col[speedup_methods[k].key],
                          x      |-> x,
                          y      |-> speedup[speedup_methods[k].key]]],
            !.texts = [k \in 1..Len(best) |->
                         [key |-> "sme_4tiles",
                          i   |-> k - 1,
                          x   |-> PyIndex(x, k - 1),
                          y   |-> speedup_y_offset(k - 1, best[k]),
                          s   |-> FormatFixed(best[k], 10),
                          va  |-> "bottom",
                          color |-> col["sme_4tiles"]]],
            !.hlines = <<[y |-> speedup_baseline, color |-> col["baseline"],
                          label |-> "Baseline (CPU)"]>>,
            !.ylabel = "Speedup Factor (x)",
            !.ylim = <<50, 60000>>,
            !.xlim = <<0 - 30, 100 * Len(sizes) - 70>>,
            !.xticks = x,
            !.xticklabels = sizes,
            !.title = "Speedup Factor Analysis",
            !.legend = [loc |-> "upper left", ncol |-> 1],
            !.grid = "both"])

----------------------------------------------------------------------------
(* create_throughput_plot *)

bar_width == 20

\* (key, label, color, offset): offset in tenths of a bar width
throughput_methods ==
    <<[key |-> "cpu", label |-> "CPU", offset |-> 0 - 15],
      [key |-> "sme_cpu_prep", label |-> "CPU Prep + Single", offset |-> 0 - 5],
      [key |-> "sme_sme_prep", label |-> "SME Prep + Single", offset |-> 5],
      [key |-> "sme_4tiles", label |-> "SME Prep + 4-Tiles", offset |-> 15]>>

\* if key == 'sme_4tiles': ... if i % 2 == 1:
throughput_annotated_even(key, i) == key = "sme_4tiles" /\ i % 2 = 0

throughput_annotated(key, i) == key = "sme_4tiles" /\ i % 2 = 1

\* the ax.text calls made while the series of method m is drawn
throughput_texts(m, bar, values, col) ==
    LET count == IF Len(bar.x) < Len(values) THEN Len(bar.x) ELSE Len(values)  \* zip
        ann == SelectSeq([k \in 1..count |-> k - 1],
                         LAMBDA i : throughput_annotated(m.key, i))
    IN  [j \in 1..Len(ann) |->
           [key |-> m.key,
            i   |-> ann[j],
            \* bar.get_x() + bar.get_width()/2.
            x   |-> (bar.x[ann[j] + 1] - bar.width \div 2) + bar.width \div 2,
            y   |-> bar.height[ann[j] + 1] * 105,
            s   |-> FormatFixed(values[ann[j] + 1], 100),
            va  |-> "bottom",
            color |-> col[m.key]]]

RECURSIVE throughput_loop(_, _, _, _, _)
throughput_loop(ax, k, x, gflops, col) ==
    IF k > Len(throughput_methods) THEN Drawn(ax)
    ELSE LET m == throughput_methods[k]
         IN  IF m.key \notin DOMAIN gflops THEN Raised("KeyError", ax)
             ELSE LET values == gflops[m.key]
                      bar == [key    |-> m.key,
                              label  |-> m.label,
                              color  |-> col[m.key],
                              offset |-> m.offset,
                              x      |-> [j \in 1..Len(x) |->
                                            100 * x[j] + (m.offset * bar_width) \div 10],
                              height |-> values,
                              width  |-> bar_width]
                  IN  IF Len(values) # Len(x) /\ Len(values) # 1 /\ Len(x) # 1
                      THEN Raised("ValueError", ax)   \* ax.bar: shape mismatch
                      ELSE throughput_loop(
                             [ax EXCEPT !.bars = Append(@, bar),
                                        !.texts = @ \o throughput_texts(m, bar, values, col)],
                             k + 1, x, gflops, col)

create_throughput_plot(ax, sizes, gflops, col) ==
    LET x == arange(Len(sizes))
        r == throughput_loop(ax, 1, x, gflops, col)
    IN  IF r.error # "none" THEN r
        ELSE Drawn([r.ax EXCEPT
            !.ylabel = "Throughput (GFLOPS)",
            !.ylim = <<0, 170000>>,
            !.xticks = x,
            !.xticklabels = sizes,
            !.title = "Throughput Performance Comparison",
            !.legend = [loc |-> "upper left", ncol |-> 2],
            !.grid = "y"])

----------------------------------------------------------------------------
(* create_execution_time_plot *)

time_methods ==
    <<[key |-> "cpu", label |-> "CPU Baseline", marker |-> "o"],
      [key |-> "sme_cpu_prep", label |-> "CPU Prep + Single Tile", marker |-> "s"],
      [key |-> "sme_sme_prep", label |-> "SME Prep + Single Tile", marker |-> "^"],
      [key |-> "sme_4tiles", label |-> "SME Prep + 4-Tiles Parallel", marker |-> "D"]>>

\* for i in [0, -1]:
time_annotated_first_two == <<0, 1>>

time_annotated == <<0, 0 - 1>>

\* y_offset = best_vals[i] * 0.6 if i == 0 else best_vals[i] * 1.5
time_y_offset(i, val) == IF i = 0 THEN val * 60 ELSE val * 150

\* va = 'top' if i == 0 else 'bottom'
time_va(i) == IF i = 0 THEN "top" ELSE "bottom"

create_execution_time_plot(ax, sizes, times, col) ==
    LET x == arange(Len(sizes))
        n == Len(time_methods)
        best_vals == times["sme_4tiles"]
    IN  IF \E k \in 1..n : time_methods[k].key \notin DOMAIN times
        THEN Raised("KeyError", ax)
        ELSE IF \E k \in 1..n : Len(times[time_methods[k].key]) # Len(x)
        THEN Raised("ValueError", ax)       \* ax.plot: x and y differ in length
        ELSE IF \E j \in 1..Len(time_annotated) :
                   ~InRange(best_vals, time_annotated[j]) \/ ~InRange(x, time_annotated[j])
        THEN Raised("IndexError", ax)       \* best_vals[i], x[i]
        ELSE Drawn([ax EXCEPT
            !.lines = [k \in 1..n |->
                         [key    |-> time_methods[k].key,
                          label  |-> time_methods[k].label,
                          marker |-> time_methods[k].marker,
                          color  |-> col[time_methods[k].key],
                          x      |-> x,
                          y      |-> times[time_methods[k].key]]],
            !.texts = [j \in 1..Len(time_annotated) |->
                         LET i == time_annotated[j]
                         IN  [key |-> "sme_4tiles",
                              i   |-> i,
                              x   |-> PyIndex(x, i),
                              y   |-> time_y_offset(i, PyIndex(best_vals, i)),
                              s   |-> FormatFixed(PyIndex(best_vals, i), 10),
                              va  |-> time_va(i),
                              color |-> col["sme_4tiles"]]],
            !.ylabel = "Execution Time (us)",
            !.yscale = "log",
            !.ylim = <<300, 2000000>>,
            !.xlim = <<0 - 30, 100 * Len(sizes) - 70>>,
            !.xticks = x,
            !.xticklabels = sizes,
            !.title = "Execution Time Comparison (Log Scale)",
            !.legend = [loc |-> "upper left", ncol |-> 1],
            !.grid = "both"])

----------------------------------------------------------------------------
(* The working directory and plt.savefig *)

Absent  == [state |-> "absent",  dpi |-> None]  \* no file under the name
Stale   == [state |-> "stale",   dpi |-> None]  \* a file from before this run
Partial == [state |-> "partial", dpi |-> None]  \* what a failed write left behind
Written(dpi) == [state |-> "written", dpi |-> dpi]

OutputFiles ==
    {"sme_matmul_performance.png", "sme_matmul_performance.pdf",
     "sme_matmul_performance.svg", "sme_matmul_performance_hires.png"}

\* What a savefig call can do: write the file (replacing one of the same
\* name) and return, or raise.  main gives savefig a path, so the file is
\* opened and filled by the export layer with no temporary file and no
\* cleanup in main: a call that raises before the file is opened leaves the
\* path as it was, a call that raises later leaves an incomplete file.
SaveOutcomes == {"written", "raised", "raised_partial"}

savefig_forgetful(d, filename, dpi, outcome) ==
    [f \in DOMAIN d \cup {filename} |->
        IF f = filename
        THEN IF outcome = "written" THEN Written(dpi)
             ELSE IF outcome = "raised_partial" THEN Partial
             ELSE IF f \in DOMAIN d THEN d[f] ELSE Absent
        ELSE IF d[f].state = "written" /\ outcome # "written" THEN Absent ELSE d[f]]

savefig(d, filename, dpi, outcome) ==
    [f \in DOMAIN d \cup {filename} |->
        IF f = filename
        THEN IF outcome = "written" THEN Written(dpi)
             ELSE IF outcome = "raised_partial" THEN Partial
             ELSE IF f \in DOMAIN d THEN d[f] ELSE Absent
        ELSE d[f]]

----------------------------------------------------------------------------
(* main *)

output_formats_no_svg ==
    <<[fmt |-> "png", dpi |-> 300,  desc |-> "GitHub/Web display (300 DPI)"],
      [fmt |-> "pdf", dpi |-> None, desc |-> "LaTeX/Papers (vector)"]>>

output_formats ==
    <<[fmt |-> "png", dpi |-> 300,  desc |-> "GitHub/Web display (300 DPI)"],
      [fmt |-> "pdf", dpi |-> None, desc |-> "LaTeX/Papers (vector)"],
      [fmt |-> "svg", dpi |-> None, desc |-> "Vector graphics (editable)"]>>

\* filename = f'sme_matmul_performance.{fmt}'
filename(fmt) == "sme_matmul_performance." \o fmt

hires_filename == "sme_matmul_performance_hires.png"

hires_dpi == 600

\* The lines of standard output.  The check mark and the pictographs of the
\* source's messages are written "v" and left out; print("\n...") is the empty
\* line followed by the text.
Rule == "======================================================================"

Dashes == "----------------------------------------------------------------------"

SpeedupCreated == "  v Speedup analysis chart created"
GflopsCreated  == "  v GFLOPS comparison chart created"
TimeCreated    == "  v Execution time chart created"
Complete       == "Visualization Complete!"

\* f'{name:35s}': name left-justified in a field of 35 characters
Spaces == "                                   "

Pad35(name) == IF Len(name) >= 35 THEN name ELSE name \o SubSeq(Spaces, 1, 35 - Len(name))

\* print(f'  v {filename:35s} - {desc}')
SavedLine(name, desc) == "  v " \o Pad35(name) \o " - " \o desc

Init ==
    /\ pc = "main"
    /\ colors = Unset
    /\ matrix_sizes = Unset
    /\ time_data = Unset
    /\ speedup_data = Unset
    /\ gflops_data = Unset
    /\ ax1 = Unset
    /\ ax2 = Unset
    /\ ax3 = Unset
    /\ suptitle = ""
    /\ idx = 0
    /\ stdout = <<>>
    /\ disk0 \in [OutputFiles -> {Absent, Stale}]
    /\ disk = disk0
    /\ error = "none"

Header ==
    /\ pc = "main"
    /\ stdout' = stdout \o <<Rule, "SME Matrix Multiplication Performance Visualization", Rule>>
    /\ pc' = "setup_plot_style"
    /\ UNCHANGED <<colors, matrix_sizes, time_data, speedup_data, gflops_data,
                   ax1, ax2, ax3, suptitle, idx, disk, error, disk0>>

SetupPlotStyle ==
    /\ pc = "setup_plot_style"
    /\ colors' = setup_plot_style
    /\ pc' = "load_data"
    /\ UNCHANGED <<matrix_sizes, time_data, speedup_data, gflops_data,
                   ax1, ax2, ax3, suptitle, idx, stdout, disk, error, disk0>>

LoadData ==
    /\ pc = "load_data"
    /\ matrix_sizes' = load_data[1]
    /\ time_data' = load_data[2]
    /\ speedup_data' = load_data[3]
    /\ gflops_data' = load_data[4]
    /\ pc' = "figure"
    /\ UNCHANGED <<colors, ax1, ax2, ax3, suptitle, idx, stdout, disk, error, disk0>>

Figure ==
    /\ pc = "figure"
    /\ ax1' = NewAxes
    /\ ax2' = NewAxes
    /\ ax3' = NewAxes
    /\ stdout' = stdout \o <<"", "Generating performance visualizations...">>
    /\ pc' = "create_speedup_plot"
    /\ UNCHANGED <<colors, matrix_sizes, time_data, speedup_data, gflops_data,
                   suptitle, idx, disk, error, disk0>>

CreateSpeedupPlot ==
    /\ pc = "create_speedup_plot"
    /\ LET r == create_speedup_plot(ax1, matrix_sizes, speedup_data, colors)
       IN  /\ ax1' = r.ax
           /\ error' = r.error
           /\ pc' = IF r.error = "none" THEN "speedup_created" ELSE "failed"
    /\ UNCHANGED <<colors, matrix_sizes, time_data, speedup_data, gflops_data,
                   ax2, ax3, suptitle, idx, stdout, disk, disk0>>

PrintSpeedupCreated ==
    /\ pc = "speedup_created"
    /\ stdout' = Append(stdout, SpeedupCreated)
    /\ pc' = "create_throughput_plot"
    /\ UNCHANGED <<colors, matrix_sizes, time_data, speedup_data, gflops_data,
                   ax1, ax2, ax3, suptitle, idx, disk, error, disk0>>

CreateThroughputPlot ==
    /\ pc = "create_throughput_plot"
    /\ LET r == create_throughput_plot(ax2, matrix_sizes, gflops_data, colors)
       IN  /\ ax2' = r.ax
           /\ error' = r.error
           /\ pc' = IF r.error = "none" THEN "gflops_created" ELSE "failed"
    /\ UNCHANGED <<colors, matrix_sizes, time_data, speedup_data, gflops_data,
                   ax1, ax3, suptitle, idx, stdout, disk, disk0>>

PrintGflopsCreated ==
    /\ pc = "gflops_created"
    /\ stdout' = Append(stdout, GflopsCreated)
    /\ pc' = "create_execution_time_plot"
    /\ UNCHANGED <<colors, matrix_sizes, time_data, speedup_data, gflops_data,
                   ax1, ax2, ax3, suptitle, idx, disk, error, disk0>>

CreateExecutionTimePlot ==
    /\ pc = "create_execution_time_plot"
    /\ LET r == create_execution_time_plot(ax3, matrix_sizes, time_data, colors)
       IN  /\ ax3' = r.ax
           /\ error' = r.error
           /\ pc' = IF r.error = "none" THEN "time_created" ELSE "failed"
    /\ UNCHANGED <<colors, matrix_sizes, time_data, speedup_data, gflops_data,
                   ax1, ax2, suptitle, idx, stdout, disk, disk0>>

PrintTimeCreated ==
    /\ pc = "time_created"
    /\ stdout' = Append(stdout, TimeCreated)
    /\ pc' = "layout"
    /\ UNCHANGED <<colors, matrix_sizes, time_data, speedup_data, gflops_data,
                   ax1, ax2, ax3, suptitle, idx, disk, error, disk0>>

\* fig.suptitle, tight_layout, subplots_adjust, output_formats, the two prints
Layout ==
    /\ pc = "layout"
    /\ suptitle' = "ARM SME Matrix Multiplication Performance Analysis"
    /\ stdout' = stdout \o <<"", "Saving visualization files...", Dashes>>
    /\ idx' = 0
    /\ pc' = IF Len(output_formats) > 0 THEN "savefig" ELSE "savefig_hires"
    /\ UNCHANGED <<colors, matrix_sizes, time_data, speedup_data, gflops_data,
                   ax1, ax2, ax3, disk, error, disk0>>

\* plt.savefig(filename, dpi=settings['dpi'], ...) in the loop over output_formats
SaveFig ==
    /\ pc = "savefig"
    /\ \E outcome \in SaveOutcomes :
         /\ disk' = savefig(disk, filename(output_formats[idx + 1].fmt),
                            output_formats[idx + 1].dpi, outcome)
         /\ IF outcome = "written"
            THEN pc' = "saved" /\ error' = error
            ELSE pc' = "failed" /\ error' = "SaveError"
    /\ UNCHANGED <<colors, matrix_sizes, time_data, speedup_data, gflops_data,
                   ax1, ax2, ax3, suptitle, idx, stdout, disk0>>

PrintSaved ==
    /\ pc = "saved"
    /\ stdout' = Append(stdout, SavedLine(filename(output_formats[idx + 1].fmt),
                                          output_formats[idx + 1].desc))
    /\ idx' = idx + 1
    /\ pc' = IF idx + 1 < Len(output_formats) THEN "savefig" ELSE "savefig_hires"
    /\ UNCHANGED <<colors, matrix_sizes, time_data, speedup_data, gflops_data,
                   ax1, ax2, ax3, suptitle, disk, error, disk0>>

\* plt.savefig('sme_matmul_performance_hires.png', dpi=600, ...)
SaveFigHires ==
    /\ pc = "savefig_hires"
    /\ \E outcome \in SaveOutcomes :
         /\ disk' = savefig(disk, hires_filename, hires_dpi, outcome)
         /\ IF outcome = "written"
            THEN pc' = "saved_hires" /\ error' = error
            ELSE pc' = "failed" /\ error' = "SaveError"
    /\ UNCHANGED <<colors, matrix_sizes, time_data, speedup_data, gflops_data,
                   ax1, ax2, ax3, suptitle, idx, stdout, disk0>>

PrintSavedHires ==
    /\ pc = "saved_hires"
    /\ stdout' = Append(stdout, SavedLine(hires_filename, "Publication quality (600 DPI)"))
    /\ pc' = "banner"
    /\ UNCHANGED <<colors, matrix_sizes, time_data, speedup_data, gflops_data,
                   ax1, ax2, ax3, suptitle, idx, disk, error, disk0>>

Banner ==
    /\ pc = "banner"
    /\ stdout' = stdout \o <<"", Rule, Complete, Rule>>
    /\ pc' = "done"
    /\ UNCHANGED <<colors, matrix_sizes, time_data, speedup_data, gflops_data,
                   ax1, ax2, ax3, suptitle, idx, disk, error, disk0>>

Next ==
    \/ Header
    \/ SetupPlotStyle
    \/ LoadData
    \/ Figure
    \/ CreateSpeedupPlot
    \/ PrintSpeedupCreated
    \/ CreateThroughputPlot
    \/ PrintGflopsCreated
    \/ CreateExecutionTimePlot
    \/ PrintTimeCreated
    \/ Layout
    \/ SaveFig
    \/ PrintSaved
    \/ SaveFigHires
    \/ PrintSavedHires
    \/ Banner

Spec == Init /\ [][Next]_vars

----------------------------------------------------------------------------
(* Vocabulary of the properties *)

Loaded == pc \notin {"main", "setup_plot_style", "load_data"}

\* the chart routine of a subplot has returned
Charted(ax) == ax # Unset /\ ax.title # ""

Methods == {"cpu", "sme_cpu_prep", "sme_sme_prep", "sme_4tiles"}

SizeIndices == {0, 1, 2}

Range(s) == {s[k] : k \in 1..Len(s)}

Abs(n) == IF n < 0 THEN 0 - n ELSE n

\* the writes of main in order, as the export table of the specification lists them
WriteOrder ==
    <<[name |-> "sme_matmul_performance.png", dpi |-> 300,
       line |-> "  v sme_matmul_performance.png          - GitHub/Web display (300 DPI)"],
      [name |-> "sme_matmul_performance.pdf", dpi |-> None,
       line |-> "  v sme_matmul_performance.pdf          - LaTeX/Papers (vector)"],
      [name |-> "sme_matmul_performance.svg", dpi |-> None,
       line |-> "  v sme_matmul_performance.svg          - Vector graphics (editable)"],
      [name |-> "sme_matmul_performance_hires.png", dpi |-> 600,
       line |-> "  v sme_matmul_performance_hires.png    - Publication quality (600 DPI)"]>>

WriteNames == {WriteOrder[j].name : j \in 1..4}

ProgressLines == {WriteOrder[j].line : j \in 1..4}

IsProgressLine(l) == l \in ProgressLines

CreatedLines == {SpeedupCreated, GflopsCreated, TimeCreated}

IsCreatedLine(l) == l \in CreatedLines

\* main stopped on an exception of savefig; the failed write is number idx + 1
SaveFailed == pc = "failed" /\ error = "SaveError"

StartedEmpty == \A f \in DOMAIN disk0 : disk0[f] = Absent

OnDisk == {f \in DOMAIN disk : disk[f].state # "absent"}

----------------------------------------------------------------------------
(* C1 *)

\* C1 as stated: in the loaded execution-time table the 4-tiles method is at
\* most as slow as each of the three other methods at every matrix size.
C1_AsStated ==
    Loaded =>
        \A i \in SizeIndices : \A m \in Methods \ {"sme_4tiles"} :
            PyIndex(time_data["sme_4tiles"], i) <= PyIndex(time_data[m], i)

\* C1 amended: the 4-tiles time is at most every other method's time at the
\* sizes with index 1 and 2, and at most the cpu and sme_cpu_prep times at
\* index 0; at index 0 sme_sme_prep is strictly faster than 4-tiles.
C1_Fastest ==
    Loaded =>
        /\ \A i \in {1, 2} : \A m \in Methods \ {"sme_4tiles"} :
               PyIndex(time_data["sme_4tiles"], i) <= PyIndex(time_data[m], i)
        /\ \A m \in {"cpu", "sme_cpu_prep"} :
               PyIndex(time_data["sme_4tiles"], 0) <= PyIndex(time_data[m], 0)
        /\ PyIndex(time_data["sme_sme_prep"], 0) < PyIndex(time_data["sme_4tiles"], 0)

C1_Witness ==
    /\ pc = "figure"
    /\ time_data["sme_4tiles"] = <<530, 840, 2300>>
    /\ time_data["sme_sme_prep"][1] = 510

----------------------------------------------------------------------------
(* C4 *)

\* C4: every speedup entry of a non-baseline method is the baseline time
\* divided by the method's time, rounded to two decimals; in hundredths,
\* 2 * |speedup * time_m - 100 * time_cpu| <= time_m.
C4_SpeedupIsRatio ==
    Loaded =>
        \A m \in Methods \ {"cpu"} : \A i \in SizeIndices :
            2 * Abs(PyIndex(speedup_data[m], i) * PyIndex(time_data[m], i)
                    - 100 * PyIndex(time_data["cpu"], i))
              <= PyIndex(time_data[m], i)

C4_Witness ==
    /\ pc = "figure"
    /\ speedup_data["sme_4tiles"][3] = 50237
    /\ time_data["cpu"][3] = 1155440
    /\ time_data["sme_4tiles"][3] = 2300

----------------------------------------------------------------------------
(* C5 *)

\* C5: the three loaded tables have the same four method keys, every value
\* sequence is as long as the list of matrix sizes (3), and no chart routine
\* reads an index out of range: none ends in a KeyError, an IndexError or a
\* length mismatch, and every annotated index is inside its sequence.
C5_TablesAligned ==
    Loaded =>
        /\ DOMAIN time_data = Methods
        /\ DOMAIN speedup_data = Methods
        /\ DOMAIN gflops_data = Methods
        /\ Len(matrix_sizes) = 3
        /\ \A m \in Methods :
               /\ Len(time_data[m]) = Len(matrix_sizes)
               /\ Len(speedup_data[m]) = Len(matrix_sizes)
               /\ Len(gflops_data[m]) = Len(matrix_sizes)
        /\ error \notin {"KeyError", "IndexError", "ValueError"}
        /\ \A ax \in {ax1, ax2, ax3} :
               Charted(ax) =>
                   \A k \in 1..Len(ax.texts) :
                       /\ InRange(ax.xticks, ax.texts[k].i)
                       /\ InRange(matrix_sizes, ax.texts[k].i)

C5_Witness ==
    /\ pc = "layout"
    /\ error = "none"
    /\ Len(ax1.texts) = 3
    /\ Len(ax2.texts) = 1
    /\ ax3.texts[2].i = 0 - 1

----------------------------------------------------------------------------
(* C6 *)

\* C6: the loaded speedup of the baseline method cpu is exactly 1.00 at every
\* matrix size, and the one horizontal reference line of the speedup chart is
\* drawn at that height.
C6_BaselineIsOne ==
    Loaded =>
        /\ \A i \in SizeIndices : PyIndex(speedup_data["cpu"], i) = 100
        /\ Charted(ax1) =>
               /\ Len(ax1.hlines) = 1
               /\ \A i \in SizeIndices : ax1.hlines[1].y = PyIndex(speedup_data["cpu"], i)

C6_Witness ==
    /\ pc = "speedup_created"
    /\ speedup_data["cpu"] = <<100, 100, 100>>
    /\ ax1.hlines[1].y = 100

----------------------------------------------------------------------------
(* C7 *)

\* C7: every loaded throughput and execution-time value is strictly positive,
\* so every point plotted on the log-scaled execution-time axis is positive.
C7_Positive ==
    Loaded =>
        /\ \A m \in Methods : \A i \in SizeIndices :
               /\ PyIndex(gflops_data[m], i) > 0
               /\ PyIndex(time_data[m], i) > 0
        /\ Charted(ax3) =>
               /\ ax3.yscale = "log"
               /\ \A k \in 1..Len(ax3.lines) : \A j \in 1..Len(ax3.lines[k].y) :
                      ax3.lines[k].y[j] > 0

C7_Witness ==
    /\ pc = "time_created"
    /\ ax3.yscale = "log"
    /\ Len(ax3.lines) = 4
    /\ ax3.lines[4].y[1] = 530

----------------------------------------------------------------------------
(* C8 *)

\* the value labels of the throughput chart that sit on bar i of series k
LabelsOn(ax, k, i) ==
    {t \in 1..Len(ax.texts) :
        /\ ax.texts[t].x = ax.bars[k].x[i + 1]
        /\ ax.texts[t].y = ax.bars[k].height[i + 1] * 105}

\* C8: the throughput chart has one bar series per method, at offsets -1.5,
\* -0.5, +0.5 and +1.5 bar widths in the order cpu, sme_cpu_prep,
\* sme_sme_prep, sme_4tiles; a bar carries a value label iff it belongs to
\* sme_4tiles and its size index is odd, so exactly one label is drawn, on
\* the 128 bar of sme_4tiles.
C8_ThroughputLabels ==
    Charted(ax2) =>
        /\ Len(ax2.bars) = 4
        /\ [k \in 1..4 |-> ax2.bars[k].key]
               = <<"cpu", "sme_cpu_prep", "sme_sme_prep", "sme_4tiles">>
        /\ [k \in 1..4 |-> ax2.bars[k].offset] = <<0 - 15, 0 - 5, 5, 15>>
        /\ \A k \in 1..4 : \A i \in SizeIndices :
               /\ ax2.bars[k].x[i + 1] = 100 * i + (ax2.bars[k].offset * bar_width) \div 10
               /\ ax2.bars[k].height[i + 1] = PyIndex(gflops_data[ax2.bars[k].key], i)
               /\ (LabelsOn(ax2, k, i) # {}) <=> (ax2.bars[k].key = "sme_4tiles" /\ i % 2 = 1)
        /\ Len(ax2.texts) = 1
        /\ ax2.texts[1].key = "sme_4tiles"
        /\ ax2.texts[1].i = 1
        /\ matrix_sizes[ax2.texts[1].i + 1] = "128x128x128"

C8_Witness ==
    /\ pc = "gflops_created"
    /\ Len(ax2.bars) = 4
    /\ LabelsOn(ax2, 4, 1) = {1}
    /\ ax2.texts[1].s = 499

----------------------------------------------------------------------------
(* C9 *)

\* C9: the execution-time chart carries exactly two labels, both on the
\* sme_4tiles series: one on its first point (index 0), anchored below the
\* point at 0.6 times the value and top-aligned, and one on its last point
\* (index -1, the point at len - 1), anchored above the point at 1.5 times
\* the value and bottom-aligned.
C9_TimeLabels ==
    Charted(ax3) =>
        LET best == time_data["sme_4tiles"]
            last == Len(best) - 1
        IN  /\ Len(ax3.texts) = 2
            /\ \A t \in 1..2 : ax3.texts[t].key = "sme_4tiles"
            /\ ax3.texts[1].i = 0
            /\ ax3.texts[1].x = 0
            /\ ax3.texts[1].y = 60 * PyIndex(best, 0)
            /\ ax3.texts[1].y < 100 * PyIndex(best, 0)
            /\ ax3.texts[1].va = "top"
            /\ ax3.texts[2].i = 0 - 1
            /\ ax3.texts[2].x = last
            /\ ax3.texts[2].y = 150 * PyIndex(best, last)
            /\ ax3.texts[2].y > 100 * PyIndex(best, last)
            /\ ax3.texts[2].va = "bottom"
            /\ last = 2

C9_Witness ==
    /\ pc = "time_created"
    /\ ax3.texts[1].y = 31800
    /\ ax3.texts[2].y = 345000
    /\ ax3.texts[2].x = 2

----------------------------------------------------------------------------
(* C10 *)

\* limits are in hundredths, anchors in units of 1/10000
AnchorsInside(ax) ==
    \A t \in 1..Len(ax.texts) :
        100 * ax.ylim[1] <= ax.texts[t].y /\ ax.texts[t].y <= 100 * ax.ylim[2]

LinesInside(ax) ==
    \A k \in 1..Len(ax.lines) : \A j \in 1..Len(ax.lines[k].y) :
        ax.ylim[1] <= ax.lines[k].y[j] /\ ax.lines[k].y[j] <= ax.ylim[2]

BarsInside(ax) ==
    \A k \in 1..Len(ax.bars) : \A j \in 1..Len(ax.bars[k].height) :
        ax.ylim[1] <= ax.bars[k].height[j] /\ ax.bars[k].height[j] <= ax.ylim[2]

\* C10: on each chart every annotation anchor and every plotted value lies
\* inside the chart's fixed y-range: [0.5, 600] for the speedup chart (labels
\* at val*1.10, val*1.15 for index 1), [0, 1700] for the throughput chart
\* (labels at height*1.05), [3, 20000] for the execution-time chart (labels
\* at val*0.6 and val*1.5); this holds for the values of all methods of the
\* loaded tables, plotted or not.
C10_InsideAxes ==
    /\ Charted(ax1) =>
           /\ ax1.ylim = <<50, 60000>>
           /\ \A t \in 1..Len(ax1.texts) :
                  ax1.texts[t].y = PyIndex(speedup_data["sme_4tiles"], ax1.texts[t].i)
                                     * (IF ax1.texts[t].i = 1 THEN 115 ELSE 110)
           /\ AnchorsInside(ax1)
           /\ LinesInside(ax1)
           /\ Len(ax1.texts) = 3 /\ Len(ax1.lines) = 3
           /\ \A m \in Methods : \A i \in SizeIndices :
                  50 <= PyIndex(speedup_data[m], i) /\ PyIndex(speedup_data[m], i) <= 60000
    /\ Charted(ax2) =>
           /\ ax2.ylim = <<0, 170000>>
           /\ AnchorsInside(ax2)
           /\ BarsInside(ax2)
           /\ Len(ax2.texts) = 1 /\ Len(ax2.bars) = 4
    /\ Charted(ax3) =>
           /\ ax3.ylim = <<300, 2000000>>
           /\ AnchorsInside(ax3)
           /\ LinesInside(ax3)
           /\ Len(ax3.texts) = 2 /\ Len(ax3.lines) = 4

C10_Witness ==
    /\ pc = "layout"
    /\ ax1.texts[3].y = 5526070
    /\ ax2.texts[1].y = 5242860
    /\ ax3.texts[1].y = 31800

----------------------------------------------------------------------------
(* C2 *)

Tail3(q) == IF Len(q) < 3 THEN q ELSE SubSeq(q, Len(q) - 2, Len(q))

\* C2: a run of main that reaches its end has written exactly the four files
\* sme_matmul_performance.png, .pdf, .svg and sme_matmul_performance_hires.png
\* (only these are on disk when none was there before), has printed exactly
\* the three "chart created" lines in the order speedup, GFLOPS, execution
\* time, and has printed the completion banner last; throughout, a "chart
\* created" line is on the output only once its chart is drawn, no file is
\* touched before all three are printed, and the banner is on the output only
\* when all four files are written.
C2_SuccessfulRun ==
    /\ pc = "done" =>
           /\ error = "none"
           /\ DOMAIN disk = WriteNames
           /\ \A j \in 1..4 : disk[WriteOrder[j].name] = Written(WriteOrder[j].dpi)
           /\ StartedEmpty => OnDisk = WriteNames /\ Cardinality(OnDisk) = 4
           /\ SelectSeq(stdout, IsCreatedLine) = <<SpeedupCreated, GflopsCreated, TimeCreated>>
           /\ SelectSeq(stdout, IsProgressLine) = [j \in 1..4 |-> WriteOrder[j].line]
           /\ Tail3(stdout) = <<Rule, Complete, Rule>>
    /\ SpeedupCreated \in Range(stdout) => Charted(ax1)
    /\ GflopsCreated \in Range(stdout) => Charted(ax2) /\ SpeedupCreated \in Range(stdout)
    /\ TimeCreated \in Range(stdout) => Charted(ax3) /\ GflopsCreated \in Range(stdout)
    /\ \A f \in DOMAIN disk :
           disk[f] # disk0[f] => CreatedLines \subseteq Range(stdout)
    /\ Complete \in Range(stdout) =>
           /\ pc = "done"
           /\ \A j \in 1..4 : disk[WriteOrder[j].name].state = "written"

C2_Witness ==
    /\ pc = "done"
    /\ StartedEmpty
    /\ OnDisk = WriteNames
    /\ Len(stdout) = 19

----------------------------------------------------------------------------
(* C3 *)

\* C3 as stated (for a run that found none of the output files): when the
\* k-th write fails, main stops failed, exactly the files of the first k-1
\* writes are on disk, the progress lines of the first k-1 writes and no other
\* are printed, and the banner is not printed.  k = idx + 1.
C3_AsStated ==
    (SaveFailed /\ StartedEmpty) =>
        /\ idx \in 0..3
        /\ OnDisk = {WriteOrder[j].name : j \in 1..idx}
        /\ SelectSeq(stdout, IsProgressLine) = [j \in 1..idx |-> WriteOrder[j].line]
        /\ Complete \notin Range(stdout)
        /\ ~ ENABLED Next

\* C3 amended: when the k-th write fails (k = idx + 1; order png at 300 DPI,
\* pdf, svg, hires png at 600 DPI), main stops failed with the exception
\* uncaught; the files of the first k-1 writes are on disk as written, none
\* removed or rolled back; the path of the failed write is as it was before
\* the run or holds an incomplete file; the paths of the later writes are as
\* before the run; the progress lines of the first k-1 writes and no other
\* are printed; the banner is not printed and never will be.
C3_FailedWrite ==
    SaveFailed =>
        /\ idx \in 0..3
        /\ DOMAIN disk = WriteNames
        /\ \A j \in 1..4 :
               /\ j <= idx => disk[WriteOrder[j].name] = Written(WriteOrder[j].dpi)
               /\ j = idx + 1 => disk[WriteOrder[j].name] \in {disk0[WriteOrder[j].name], Partial}
               /\ j > idx + 1 => disk[WriteOrder[j].name] = disk0[WriteOrder[j].name]
        /\ SelectSeq(stdout, IsProgressLine) = [j \in 1..idx |-> WriteOrder[j].line]
        /\ Complete \notin Range(stdout)
        /\ ~ ENABLED Next

C3_Witness ==
    /\ SaveFailed
    /\ StartedEmpty
    /\ idx = 2
    /\ disk["sme_matmul_performance.png"] = Written(300)
    /\ disk["sme_matmul_performance.pdf"] = Written(None)
    /\ disk["sme_matmul_performance.svg"] = Partial
    /\ disk["sme_matmul_performance_hires.png"] = Absent

====
